---- MODULE Spec2Model ----
(***************************************************************************)
(* Model of the BLIP captioning fine-tuning repository:                    *)
(*   train_lora.py  - LoRA fine-tuning loop (SpecTrain)                    *)
(*   dataset.py     - ProductCaptionDataset, the Sample Store (SpecDataset)*)
(*   predict.py     - batch prediction (SpecPredict)                       *)
(*   evaluate.py    - metrics / samples report (SpecEval)                  *)
(* The four commands are separate processes; each has its own              *)
(* specification over its own variables, the other variables staying idle. *)
(***************************************************************************)
EXTENDS Integers, Sequences, FiniteSets, TLC

VARIABLES
    \* ---- train_lora.py ----
    cuda_available, mps_available,  \* what torch reports to pick_device
    grad_accum, epochs, max_train_steps, warmup_steps, batch_size,  \* args
    train_len,        \* len(train_ds): valid samples of --train_jsonl
    pc,               \* position of train_lora.main
    device,           \* result of pick_device ("none" before the probe)
    train_loaded,     \* ProductCaptionDataset(args.train_jsonl) constructed
    loader_len,       \* len(train_loader)
    total_steps,      \* line 88
    num_warmup_steps, \* line 92
    step,             \* line 99, the micro-batch counter
    epoch, batch_idx, \* positions of the two for loops
    sched_pos,        \* number of sched.step() calls (LambdaLR.last_epoch)
    optim_steps,      \* optimizer steps applied (parameter/moment version)
    skips,            \* boundaries at which GradScaler skipped optim.step()
    grad_inf,         \* accumulated .grad buffers hold a non-finite value
    found_inf,        \* what GradScaler found at the last boundary
    scale_exp,        \* loss scale = 2^scale_exp
    growth_tracker,   \* GradScaler's count of consecutive unskipped steps
    saved,            \* model.save_pretrained(out_dir) done
    \* ---- dataset.py ----
    ds_file,          \* the lines of the jsonl file
    ds_pc,            \* "new", "ready" (constructed), "queried"
    ds_rows,          \* ProductCaptionDataset.rows
    ds_len,           \* last result of __len__ (-1: not asked yet)
    \* ---- predict.py (batch mode) ----
    p_in,             \* the lines of the --jsonl file
    p_limit,          \* args.limit
    p_pc,             \* "loop", "write", "done", "crashed"
    p_idx,            \* the line the for loop is at (1-based)
    p_n,              \* n, line 71
    p_preds,          \* preds, line 69
    p_written,        \* write_jsonl(out_path, preds) was called
    p_out,            \* the records of the output file
    \* ---- evaluate.py ----
    e_file,           \* the lines of the --preds file
    e_max_samples,    \* args.max_samples
    e_pc,             \* "read", "metrics", "samples", "done"
    e_preds, e_refs, e_samples,  \* lines 69-71
    e_n,              \* "n" of the metrics report (-1: not written)
    e_listed          \* the rows listed in the samples report

trainVars == <<cuda_available, mps_available, grad_accum, epochs,
               max_train_steps, warmup_steps, batch_size, train_len, pc,
               device, train_loaded, loader_len, total_steps,
               num_warmup_steps, step, epoch, batch_idx, sched_pos,
               optim_steps, skips, grad_inf, found_inf, scale_exp,
               growth_tracker, saved>>

dsVars == <<ds_file, ds_pc, ds_rows, ds_len>>

predVars == <<p_in, p_limit, p_pc, p_idx, p_n, p_preds, p_written, p_out>>

evalVars == <<e_file, e_max_samples, e_pc, e_preds, e_refs, e_samples, e_n,
              e_listed>>

vars == <<trainVars, dsVars, predVars, evalVars>>

Max(a, b) == IF a >= b THEN a ELSE b
Min(a, b) == IF a <= b THEN a ELSE b

(***************************************************************************)
(* Bounds of the model.                                                    *)
(***************************************************************************)
MaxGradAccum == 3
MaxEpochs == 2
MaxStepCap == 6
MaxWarmup == 1
MaxBatchSize == 2
MaxTrainLen == 4
MaxLines == 5
MaxPredRows == 3
MaxLimit == 2
MaxEvalRows == 3
MaxSamples == 2

(***************************************************************************)
(* torch.amp.GradScaler("cuda", enabled=True) defaults: init_scale 2^16,   *)
(* growth_factor 2, backoff_factor 1/2, growth_interval 2000.              *)
(***************************************************************************)
InitScaleExp == 16
GrowthInterval == 2000

(***************************************************************************)
(* config.py                                                               *)
(***************************************************************************)
pick_device(cuda, mps) ==
    IF cuda THEN "cuda" ELSE IF mps THEN "mps" ELSE "cpu"

(***************************************************************************)
(* train_lora.py                                                           *)
(***************************************************************************)
\* line 54: training goes on only on CUDA
DeviceOk_mut(d) == d /= "cpu"
DeviceOk(d) == d = "cuda"

\* len(DataLoader(train_ds, batch_size, drop_last=False))
LoaderLen(n, bs) == (n + bs - 1) \div bs

\* line 87
StepsPerEpoch(ll, k) == Max(1, ll \div k)

\* line 88
TotalSteps(cap, spe, ep) == Min(cap, spe * ep)

\* line 92
NumWarmup(w, total) == Min(w, total \div 5)

\* line 112
IsBoundary_mut(s, k) == s % k = 0
IsBoundary(s, k) == (s + 1) % k = 0

\* line 122 / 124
BudgetReached(s, total) == s >= total

\* scaler.step(optim): optim.step() runs unless a non-finite gradient was found
StepApplied_mut(inf) == TRUE
StepApplied(inf) == ~inf

\* scaler.update(): the new scale exponent and growth tracker
ScaleUpdate(inf, e, g) ==
    IF inf THEN <<e - 1, 0>>
    ELSE IF g + 1 = GrowthInterval THEN <<e + 1, 0>>
    ELSE <<e, g + 1>>

\* get_cosine_schedule_with_warmup: which branch of lr_lambda the position is on
LrBranch(pos, nws) == IF pos < nws THEN "Warmup" ELSE "SteadyState"

(***************************************************************************)
(* JSON values of a record: a field read with r.get(key) is None when the  *)
(* key is absent (or null) and <<s>> when it holds the string s.           *)
(***************************************************************************)
None == <<>>
Str(s) == <<s>>

\* Python truthiness of a field value: None and "" are falsy
Truthy(v) == v /= None /\ v[1] /= ""

\* str(v): the string itself, and "None" for None
PyStr(v) == IF v = None THEN "None" ELSE v[1]

(***************************************************************************)
(* dataset.py                                                              *)
(***************************************************************************)
\* A line of the file: blank (empty or whitespace only, so that line.strip()
\* is empty) or one JSON object.
DsLine(ip, txt) == [blank |-> FALSE, image_path |-> ip, text |-> txt]
DsLines ==
    {[blank |-> TRUE, image_path |-> None, text |-> None],
     DsLine(Str("a.jpg"), Str("x")), DsLine(Str("b.jpg"), Str("x")),
     DsLine(None, Str("x")), DsLine(Str(""), Str("x")),
     DsLine(Str("a.jpg"), None), DsLine(Str("a.jpg"), Str("")),
     DsLine(None, None)}

RECURSIVE SeqsUpTo(_, _)
SeqsUpTo(S, n) ==
    IF n = 0 THEN {<<>>}
    ELSE LET shorter == SeqsUpTo(S, n - 1)
         IN shorter \cup {Append(q, x) : q \in {r \in shorter : Len(r) = n - 1}, x \in S}

\* load_jsonl, lines 12-21: the parsed object of every non-blank line
RECURSIVE load_jsonl(_)
load_jsonl(lines) ==
    IF lines = <<>> THEN <<>>
    ELSE LET line == Head(lines)
             rest == load_jsonl(Tail(lines))
         IN IF line.blank THEN rest
            ELSE <<[image_path |-> line.image_path, text |-> line.text]>> \o rest

\* line 39: the row is dropped
DropRow_mut(ip, txt) == ~Truthy(ip) /\ ~Truthy(txt)
DropRow(ip, txt) == ~Truthy(ip) \/ ~Truthy(txt)

\* lines 35-42: keep only valid rows, as Samples
RECURSIVE KeepValid(_)
KeepValid(rows) ==
    IF rows = <<>> THEN <<>>
    ELSE LET r == Head(rows)
             rest == KeepValid(Tail(rows))
         IN IF DropRow(r.image_path, r.text) THEN rest
            ELSE <<[image_path |-> PyStr(r.image_path), text |-> PyStr(r.text)]>> \o rest

InitDataset ==
    /\ ds_file \in SeqsUpTo(DsLines, MaxLines)
    /\ ds_pc = "new"
    /\ ds_rows = <<>>
    /\ ds_len = -1

IdleDataset ==
    /\ ds_file = <<>>
    /\ ds_pc = "idle"
    /\ ds_rows = <<>>
    /\ ds_len = -1

\* ProductCaptionDataset.__init__, lines 31-42
DatasetInit ==
    /\ ds_pc = "new"
    /\ ds_rows' = KeepValid(load_jsonl(ds_file))
    /\ ds_pc' = "ready"
    /\ UNCHANGED <<ds_file, ds_len>>
    /\ UNCHANGED <<trainVars, predVars, evalVars>>

\* ProductCaptionDataset.__len__, lines 44-45
DatasetLen ==
    /\ ds_pc = "ready"
    /\ ds_len' = Len(ds_rows)
    /\ ds_pc' = "queried"
    /\ UNCHANGED <<ds_file, ds_rows>>
    /\ UNCHANGED <<trainVars, predVars, evalVars>>

InitTrainOnly ==
    /\ cuda_available \in BOOLEAN
    /\ mps_available \in BOOLEAN
    /\ grad_accum \in 1..MaxGradAccum
    /\ epochs \in 0..MaxEpochs
    /\ max_train_steps \in 0..MaxStepCap
    /\ warmup_steps \in 0..MaxWarmup
    /\ batch_size \in 1..MaxBatchSize
    /\ train_len \in 0..MaxTrainLen
    /\ pc = "start"
    /\ device = "none"
    /\ train_loaded = FALSE
    /\ loader_len = 0
    /\ total_steps = 0
    /\ num_warmup_steps = 0
    /\ step = 0
    /\ epoch = 0
    /\ batch_idx = 0
    /\ sched_pos = 0
    /\ optim_steps = 0
    /\ skips = 0
    /\ grad_inf = FALSE
    /\ found_inf = FALSE
    /\ scale_exp = InitScaleExp
    /\ growth_tracker = 0
    /\ saved = FALSE

IdleTrain ==
    /\ cuda_available = FALSE
    /\ mps_available = FALSE
    /\ grad_accum = 1
    /\ epochs = 0
    /\ max_train_steps = 0
    /\ warmup_steps = 0
    /\ batch_size = 1
    /\ train_len = 0
    /\ pc = "idle"
    /\ device = "none"
    /\ train_loaded = FALSE
    /\ loader_len = 0
    /\ total_steps = 0
    /\ num_warmup_steps = 0
    /\ step = 0
    /\ epoch = 0
    /\ batch_idx = 0
    /\ sched_pos = 0
    /\ optim_steps = 0
    /\ skips = 0
    /\ grad_inf = FALSE
    /\ found_inf = FALSE
    /\ scale_exp = InitScaleExp
    /\ growth_tracker = 0
    /\ saved = FALSE

argVars == <<cuda_available, mps_available, grad_accum, epochs,
             max_train_steps, warmup_steps, batch_size, train_len>>
loopVars == <<step, epoch, batch_idx, sched_pos, optim_steps, skips,
              grad_inf, found_inf, scale_exp, growth_tracker>>
setupVars == <<train_loaded, loader_len, total_steps, num_warmup_steps>>

\* lines 53-55
PickDevice ==
    /\ pc = "start"
    /\ device' = pick_device(cuda_available, mps_available)
    /\ pc' = IF DeviceOk(device') THEN "setup" ELSE "abort"
    /\ UNCHANGED <<argVars, setupVars, loopVars, saved>>
    /\ UNCHANGED <<dsVars, predVars, evalVars>>

\* lines 57-100
Setup ==
    /\ pc = "setup"
    /\ train_loaded' = TRUE
    /\ loader_len' = LoaderLen(train_len, batch_size)
    /\ total_steps' = TotalSteps(max_train_steps,
                                 StepsPerEpoch(loader_len', grad_accum), epochs)
    /\ num_warmup_steps' = NumWarmup(warmup_steps, total_steps')
    /\ step' = 0
    /\ epoch' = 0
    /\ batch_idx' = 0
    /\ pc' = "loop"
    /\ UNCHANGED <<argVars, device, sched_pos, optim_steps, skips, grad_inf,
                   found_inf, scale_exp, growth_tracker, saved>>
    /\ UNCHANGED <<dsVars, predVars, evalVars>>

\* lines 103-123: one micro-batch; batch_inf says whether its backward pass
\* put a non-finite value into the gradient buffers
MicroBatch(batch_inf) ==
    /\ pc = "loop"
    /\ epoch < epochs
    /\ batch_idx < loader_len
    /\ LET acc == grad_inf \/ batch_inf
           upd == ScaleUpdate(acc, scale_exp, growth_tracker)
       IN IF IsBoundary(step, grad_accum)
          THEN /\ found_inf' = acc
               /\ optim_steps' = IF StepApplied(acc) THEN optim_steps + 1
                                 ELSE optim_steps
               /\ skips' = IF StepApplied(acc) THEN skips ELSE skips + 1
               /\ scale_exp' = upd[1]
               /\ growth_tracker' = upd[2]
               /\ grad_inf' = FALSE
               /\ sched_pos' = sched_pos + 1
          ELSE /\ grad_inf' = acc
               /\ UNCHANGED <<found_inf, optim_steps, skips, scale_exp,
                              growth_tracker, sched_pos>>
    /\ step' = step + 1
    /\ IF BudgetReached(step', total_steps)
       THEN pc' = "save" /\ UNCHANGED batch_idx
       ELSE pc' = "loop" /\ batch_idx' = batch_idx + 1
    /\ UNCHANGED <<argVars, device, setupVars, epoch, saved>>
    /\ UNCHANGED <<dsVars, predVars, evalVars>>

\* lines 103, 124-125: train_loader is exhausted
EndEpoch ==
    /\ pc = "loop"
    /\ epoch < epochs
    /\ batch_idx = loader_len
    /\ IF BudgetReached(step, total_steps)
       THEN pc' = "save" /\ UNCHANGED <<epoch, batch_idx>>
       ELSE pc' = "loop" /\ epoch' = epoch + 1 /\ batch_idx' = 0
    /\ UNCHANGED <<argVars, device, setupVars, step, sched_pos, optim_steps,
                   skips, grad_inf, found_inf, scale_exp, growth_tracker, saved>>
    /\ UNCHANGED <<dsVars, predVars, evalVars>>

\* line 102: range(args.epochs) is exhausted
LoopExit ==
    /\ pc = "loop"
    /\ epoch >= epochs
    /\ pc' = "save"
    /\ UNCHANGED <<argVars, device, setupVars, loopVars, saved>>
    /\ UNCHANGED <<dsVars, predVars, evalVars>>

\* lines 127-131
SaveAdapter ==
    /\ pc = "save"
    /\ saved' = TRUE
    /\ pc' = "done"
    /\ UNCHANGED <<argVars, device, setupVars, loopVars>>
    /\ UNCHANGED <<dsVars, predVars, evalVars>>

NextTrain ==
    \/ PickDevice
    \/ Setup
    \/ \E batch_inf \in BOOLEAN : MicroBatch(batch_inf)
    \/ EndEpoch
    \/ LoopExit
    \/ SaveAdapter

(***************************************************************************)
(* predict.py, batch mode (--jsonl)                                        *)
(***************************************************************************)
\* The image files of the run: "gone.jpg" does not exist, "bad.jpg" exists
\* but PIL cannot decode it, the others exist and decode.
ExistingFiles == {"ok.jpg", "ok2.jpg", "bad.jpg"}
DecodableFiles == {"ok.jpg", "ok2.jpg"}

\* line 77: img_path.exists()
Exists(path) == path \in ExistingFiles

\* model_wrapper.py line 30: Image.open(image_path).convert("RGB") returns
Decodable(path) == path \in DecodableFiles

\* BlipCaptioner.caption, model_wrapper.py lines 24-49: the decoded, stripped
\* text the model generates for a decodable image (possibly empty)
Caption(path) == IF path = "ok.jpg" THEN "a red shoe" ELSE ""

PredImagePaths == {None, Str(""), Str("ok.jpg"), Str("ok2.jpg"),
                   Str("gone.jpg"), Str("bad.jpg")}
PredLines ==
    {[blank |-> TRUE, image_path |-> None, text |-> None]} \cup
    [blank : {FALSE}, image_path : PredImagePaths, text : {Str("x")}]

\* line 79 / line 87: {**row, "pred_text": ..., "error": ...}
PredRecord(row, pred, err) ==
    [image_path |-> row.image_path, text |-> row.text,
     pred_text |-> pred, error |-> err]

\* line 90
LimitHit(limit, n) == limit /= 0 /\ n >= limit

InitPredict ==
    /\ p_in \in SeqsUpTo(PredLines, MaxPredRows)
    /\ p_limit \in 0..MaxLimit
    /\ p_pc = "loop"
    /\ p_idx = 1
    /\ p_n = 0
    /\ p_preds = <<>>
    /\ p_written = FALSE
    /\ p_out = <<>>

IdlePredict ==
    /\ p_in = <<>>
    /\ p_limit = 0
    /\ p_pc = "idle"
    /\ p_idx = 1
    /\ p_n = 0
    /\ p_preds = <<>>
    /\ p_written = FALSE
    /\ p_out = <<>>

AtLine == p_pc = "loop" /\ p_idx <= Len(p_in)

\* iter_jsonl, lines 15-17: a blank line is not yielded
SkipBlankLine ==
    /\ AtLine
    /\ p_in[p_idx].blank
    /\ p_idx' = p_idx + 1
    /\ UNCHANGED <<p_in, p_limit, p_pc, p_n, p_preds, p_written, p_out>>
    /\ UNCHANGED <<trainVars, dsVars, evalVars>>

\* lines 73-75
SkipNoImagePath ==
    /\ AtLine
    /\ ~p_in[p_idx].blank
    /\ ~Truthy(p_in[p_idx].image_path)
    /\ p_idx' = p_idx + 1
    /\ UNCHANGED <<p_in, p_limit, p_pc, p_n, p_preds, p_written, p_out>>
    /\ UNCHANGED <<trainVars, dsVars, evalVars>>

\* lines 76-80
ImageNotFound ==
    /\ AtLine
    /\ ~p_in[p_idx].blank
    /\ Truthy(p_in[p_idx].image_path)
    /\ ~Exists(PyStr(p_in[p_idx].image_path))
    /\ p_preds' = Append(p_preds,
                         PredRecord(p_in[p_idx], None, Str("image_not_found")))
    /\ p_idx' = p_idx + 1
    /\ UNCHANGED <<p_in, p_limit, p_pc, p_n, p_written, p_out>>
    /\ UNCHANGED <<trainVars, dsVars, evalVars>>

\* lines 82-86 with model_wrapper.py line 30: Image.open raises, nothing in
\* main catches it, the process ends before write_jsonl
CaptionRaises ==
    /\ AtLine
    /\ ~p_in[p_idx].blank
    /\ Truthy(p_in[p_idx].image_path)
    /\ Exists(PyStr(p_in[p_idx].image_path))
    /\ ~Decodable(PyStr(p_in[p_idx].image_path))
    /\ p_pc' = "crashed"
    /\ UNCHANGED <<p_in, p_limit, p_idx, p_n, p_preds, p_written, p_out>>
    /\ UNCHANGED <<trainVars, dsVars, evalVars>>

\* lines 82-91
CaptionOk ==
    /\ AtLine
    /\ ~p_in[p_idx].blank
    /\ Truthy(p_in[p_idx].image_path)
    /\ Exists(PyStr(p_in[p_idx].image_path))
    /\ Decodable(PyStr(p_in[p_idx].image_path))
    /\ p_preds' = Append(p_preds,
           PredRecord(p_in[p_idx],
                      Str(Caption(PyStr(p_in[p_idx].image_path))), None))
    /\ p_n' = p_n + 1
    /\ IF LimitHit(p_limit, p_n')
       THEN p_pc' = "write" /\ UNCHANGED p_idx
       ELSE p_pc' = "loop" /\ p_idx' = p_idx + 1
    /\ UNCHANGED <<p_in, p_limit, p_written, p_out>>
    /\ UNCHANGED <<trainVars, dsVars, evalVars>>

\* line 72: the input is exhausted
EndOfInput ==
    /\ p_pc = "loop"
    /\ p_idx > Len(p_in)
    /\ p_pc' = "write"
    /\ UNCHANGED <<p_in, p_limit, p_idx, p_n, p_preds, p_written, p_out>>
    /\ UNCHANGED <<trainVars, dsVars, evalVars>>

\* line 93, write_jsonl lines 21-25
WriteJsonl ==
    /\ p_pc = "write"
    /\ p_out' = p_preds
    /\ p_written' = TRUE
    /\ p_pc' = "done"
    /\ UNCHANGED <<p_in, p_limit, p_idx, p_n, p_preds>>
    /\ UNCHANGED <<trainVars, dsVars, evalVars>>

NextPredict ==
    \/ SkipBlankLine
    \/ SkipNoImagePath
    \/ ImageNotFound
    \/ CaptionRaises
    \/ CaptionOk
    \/ EndOfInput
    \/ WriteJsonl

(***************************************************************************)
(* evaluate.py                                                             *)
(***************************************************************************)
EvalLines ==
    {[blank |-> TRUE, error |-> None, text |-> None, pred_text |-> None,
      image_path |-> None]} \cup
    [blank : {FALSE}, error : {None, Str("image_not_found")},
     text : {Str(""), Str("r1")}, pred_text : {None, Str("p1"), Str("p2")},
     image_path : {Str("a.jpg")}]

\* lines 74-75 and 79-80: the row is not used
EvalSkip_mut(row) == ~Truthy(row.text) \/ ~Truthy(row.pred_text)
EvalSkip(row) ==
    \/ row.error /= None
    \/ ~Truthy(row.text) \/ ~Truthy(row.pred_text)

\* line 78: row.get("image_path", "")
ImgOf(row) == IF row.image_path = None THEN "" ELSE PyStr(row.image_path)

\* iter_jsonl with lines 73-83: the rows main goes on with
RECURSIVE EvalKept(_)
EvalKept(lines) ==
    IF lines = <<>> THEN <<>>
    ELSE LET row == Head(lines)
             rest == EvalKept(Tail(lines))
         IN IF row.blank \/ EvalSkip(row) THEN rest ELSE <<row>> \o rest

\* line 81, line 82, line 83
RefsOf(rows) == [k \in 1..Len(rows) |-> PyStr(rows[k].text)]
PredsOf(rows) == [k \in 1..Len(rows) |-> PyStr(rows[k].pred_text)]
SamplesOf(rows) ==
    [k \in 1..Len(rows) |->
        <<ImgOf(rows[k]), PyStr(rows[k].text), PyStr(rows[k].pred_text)>>]

\* compute_metrics, line 35: "n": len(preds)
MetricsN(preds) == Len(preds)

\* rows[:limit], line 48
PySlice(rows, limit) ==
    IF limit >= 0 THEN SubSeq(rows, 1, Min(limit, Len(rows)))
    ELSE SubSeq(rows, 1, Max(0, Len(rows) + limit))

InitEval ==
    /\ e_file \in SeqsUpTo(EvalLines, MaxEvalRows)
    /\ e_max_samples \in 0..MaxSamples
    /\ e_pc = "read"
    /\ e_preds = <<>>
    /\ e_refs = <<>>
    /\ e_samples = <<>>
    /\ e_n = -1
    /\ e_listed = <<>>

IdleEval ==
    /\ e_file = <<>>
    /\ e_max_samples = 0
    /\ e_pc = "idle"
    /\ e_preds = <<>>
    /\ e_refs = <<>>
    /\ e_samples = <<>>
    /\ e_n = -1
    /\ e_listed = <<>>

\* lines 69-83
ReadPreds ==
    /\ e_pc = "read"
    /\ LET kept == EvalKept(e_file)
       IN /\ e_refs' = RefsOf(kept)
          /\ e_preds' = PredsOf(kept)
          /\ e_samples' = SamplesOf(kept)
    /\ e_pc' = "metrics"
    /\ UNCHANGED <<e_file, e_max_samples, e_n, e_listed>>
    /\ UNCHANGED <<trainVars, dsVars, predVars>>

\* lines 85-86
SaveMetrics ==
    /\ e_pc = "metrics"
    /\ e_n' = MetricsN(e_preds)
    /\ e_pc' = "samples"
    /\ UNCHANGED <<e_file, e_max_samples, e_preds, e_refs, e_samples, e_listed>>
    /\ UNCHANGED <<trainVars, dsVars, predVars>>

\* line 87, save_samples_md lines 45-54
SaveSamples ==
    /\ e_pc = "samples"
    /\ e_listed' = PySlice(e_samples, e_max_samples)
    /\ e_pc' = "done"
    /\ UNCHANGED <<e_file, e_max_samples, e_preds, e_refs, e_samples, e_n>>
    /\ UNCHANGED <<trainVars, dsVars, predVars>>

NextEval ==
    \/ ReadPreds
    \/ SaveMetrics
    \/ SaveSamples

(***************************************************************************)
(* One specification per command.                                          *)
(***************************************************************************)
InitTrain == InitTrainOnly /\ IdleDataset /\ IdlePredict /\ IdleEval

SpecTrain == InitTrain /\ [][NextTrain]_vars

InitDs == InitDataset /\ IdleTrain /\ IdlePredict /\ IdleEval

NextDataset ==
    \/ DatasetInit
    \/ DatasetLen

SpecDataset == InitDs /\ [][NextDataset]_vars

InitPred == InitPredict /\ IdleTrain /\ IdleDataset /\ IdleEval

SpecPredict == InitPred /\ [][NextPredict]_vars

InitEv == InitEval /\ IdleTrain /\ IdleDataset /\ IdlePredict

SpecEval == InitEv /\ [][NextEval]_vars

(***************************************************************************)
(* Properties of the training command (SpecTrain).                         *)
(***************************************************************************)
InLoopOrAfter == pc \in {"loop", "save", "done"}

\* C1: after every prefix of n = step micro-batches (counted across epochs)
\* exactly floor(n / K) accumulation boundaries were reached: the schedule
\* advanced once at each of them and at no other micro-batch, and one
\* optimizer step was applied per boundary that was not skipped.
C1_AccumulationBoundaries ==
    InLoopOrAfter =>
        /\ sched_pos = step \div grad_accum
        /\ optim_steps + skips = step \div grad_accum
        /\ (skips = 0 => optim_steps = step \div grad_accum)

C1_Witness ==
    /\ grad_accum = 2
    /\ epoch = 1
    /\ step = 2
    /\ sched_pos = 1
    /\ optim_steps = 1

\* C2: a micro-batch is processed only while step < total_steps, so that
\* step never exceeds total_steps, for every integer step cap and epoch count.
C2_NoMicroBatchPastBudget ==
    [][step' = step + 1 => (step < total_steps /\ step' <= total_steps')]_vars

\* C7: at an accumulation boundary with a non-finite accumulated gradient the
\* optimizer step is not applied, the loss scale shrinks, step is still
\* incremented and the run goes on (it does not abort); at a boundary with
\* finite gradients the optimizer step is applied and the scale does not shrink.
C7_NonFiniteBoundaryRecoverable ==
    [][(pc = "loop" /\ sched_pos' = sched_pos + 1) =>
         /\ step' = step + 1
         /\ pc' = IF step' >= total_steps THEN "save" ELSE "loop"
         /\ IF found_inf'
            THEN optim_steps' = optim_steps /\ scale_exp' < scale_exp
            ELSE optim_steps' = optim_steps + 1 /\ scale_exp' >= scale_exp]_vars

C7_Witness ==
    /\ pc = "loop"
    /\ found_inf
    /\ skips >= 1
    /\ optim_steps >= 1
    /\ scale_exp < InitScaleExp
    /\ step < total_steps

\* C8: whenever the probe returns anything but the primary accelerator the
\* command has aborted, with no dataset loaded, no micro-batch processed and
\* no adapter saved; training work happens on "cuda" only.
C8_FatalWithoutCuda ==
    /\ device \notin {"none", "cuda"} =>
           pc = "abort" /\ ~train_loaded /\ step = 0 /\ ~saved
    /\ (train_loaded \/ step > 0 \/ saved \/ pc \in {"setup", "loop", "save", "done"})
           => device = "cuda"

C8_Witness == pc = "abort" /\ device = "mps" /\ ~train_loaded

\* C10: the learning-rate phase is decided by the step counter against
\* warmup_steps and total_steps: a micro-batch is processed on the warmup ramp
\* exactly while step < warmup_steps and on the cosine decay from then on, and
\* when the loop terminates at step = total_steps the schedule has reached
\* its final position total_steps.
C10_PhaseByStepCounter ==
    /\ (pc = "loop" /\ epoch < epochs /\ batch_idx < loader_len) =>
          LrBranch(sched_pos, num_warmup_steps) =
              (IF step < num_warmup_steps THEN "Warmup" ELSE "SteadyState")
    /\ (pc \in {"save", "done"} /\ step = total_steps) =>
          sched_pos = total_steps

(***************************************************************************)
(* Properties of the Sample Store (SpecDataset).                           *)
(***************************************************************************)
\* the k-th smallest element of a set of line numbers
NthOf(idx, k) == CHOOSE i \in idx : Cardinality({j \in idx : j <= i}) = k

NonEmptyField(v) == v \notin {None, Str("")}

DsValidLine(l) ==
    ~l.blank /\ NonEmptyField(l.image_path) /\ NonEmptyField(l.text)

DsValidLines == {i \in 1..Len(ds_file) : DsValidLine(ds_file[i])}

\* C3: once constructed, the dataset holds exactly one Sample per non-blank
\* line with non-empty image_path and text, in line order, none for any other
\* line, and its length is the number of valid lines.
C3_SamplesAreValidLines ==
    ds_pc \in {"ready", "queried"} =>
        /\ Len(ds_rows) = Cardinality(DsValidLines)
        /\ \A k \in 1..Len(ds_rows) :
              LET l == ds_file[NthOf(DsValidLines, k)]
              IN ds_rows[k] = [image_path |-> l.image_path[1], text |-> l.text[1]]
        /\ (ds_pc = "queried" => ds_len = Cardinality(DsValidLines))

\* 3 valid rows, one row missing text, one row missing image_path
C3_Witness ==
    /\ ds_pc = "queried"
    /\ Len(ds_file) = 5
    /\ ds_len = 3
    /\ \E i \in 1..5 : ds_file[i].text = None /\ NonEmptyField(ds_file[i].image_path)
    /\ \E i \in 1..5 : ~ds_file[i].blank /\ ds_file[i].image_path = None
                       /\ NonEmptyField(ds_file[i].text)

(***************************************************************************)
(* Properties of batch prediction (SpecPredict).                           *)
(***************************************************************************)
PredEnded == p_pc \in {"done", "crashed"}

HasImagePath(l) == ~l.blank /\ NonEmptyField(l.image_path)

PredInputs == {i \in 1..Len(p_in) : HasImagePath(p_in[i])}

Undecodable(l) ==
    /\ HasImagePath(l)
    /\ l.image_path[1] \in ExistingFiles \ DecodableFiles

\* C4: with limit = 0, when the command has ended every input record with a
\* non-empty image_path has exactly one output record, in input order, with
\* the original fields; pred_text = null and error = "image_not_found" when
\* the file does not exist, pred_text non-null and error = null otherwise.
C4_OneRecordPerInput ==
    (p_limit = 0 /\ PredEnded) =>
        /\ p_written
        /\ Len(p_out) = Cardinality(PredInputs)
        /\ \A k \in 1..Len(p_out) :
              LET l == p_in[NthOf(PredInputs, k)]
                  r == p_out[k]
              IN /\ r.image_path = l.image_path
                 /\ r.text = l.text
                 /\ IF l.image_path[1] \in ExistingFiles
                    THEN r.pred_text /= None /\ r.error = None
                    ELSE r.pred_text = None /\ r.error = Str("image_not_found")

\* C5: when the command has ended, every processed record whose image exists
\* but cannot be decoded is in the output with error non-null and pred_text
\* null, and the records processed before it are in the output file.
C5_UndecodableRecordedInline ==
    PredEnded =>
        \A i \in 1..Min(p_idx, Len(p_in)) :
            Undecodable(p_in[i]) =>
                /\ p_written
                /\ \E k \in 1..Len(p_out) :
                      /\ p_out[k].image_path = p_in[i].image_path
                      /\ p_out[k].error /= None
                      /\ p_out[k].pred_text = None
                /\ \A k \in 1..Len(p_preds) :
                      k <= Len(p_out) /\ p_out[k] = p_preds[k]

\* C9: with limit L > 0 at most L records are written, whatever their
\* outcome; with L = 0 every input record with an image_path is written.
C9_LimitBoundsOutput ==
    p_pc = "done" =>
        /\ (p_limit > 0 => Len(p_out) <= p_limit)
        /\ (p_limit = 0 => Len(p_out) = Cardinality(PredInputs))

(***************************************************************************)
(* Properties of evaluation (SpecEval).                                    *)
(***************************************************************************)
Survives(l) ==
    ~l.blank /\ l.error = None /\ NonEmptyField(l.text)
    /\ NonEmptyField(l.pred_text)

Survivors == {i \in 1..Len(e_file) : Survives(e_file[i])}

====
